---- MODULE Spec2Model ----
(***************************************************************************)
(* Signature analysis core: SignatureAnalyzer (template comparison, model  *)
(* prediction, rule heuristic, training, model persistence) together with  *)
(* the descriptor conversions of FeatureExtractor that it relies on.       *)
(*                                                                         *)
(* Numbers.  A descriptor value v stands for the real number v/100.        *)
(* Scores, similarities and weights are exact rationals [n, d] kept in     *)
(* lowest terms, so that a product or a quotient is never rounded.         *)
(***************************************************************************)
EXTENDS Integers, Sequences, FiniteSets, TLC

----------------------------------------------------------------------------
(* Exact rational arithmetic                                               *)

Abs(x) == IF x < 0 THEN -x ELSE x

RECURSIVE GCD(_, _)
GCD(a, b) == IF b = 0 THEN a ELSE GCD(b, a % b)

Rat == [n : Int, d : Int]

\* the fraction n/d in lowest terms with a positive denominator
Lowest ==
    [n \in Int, d \in Int |->
        LET g == GCD(Abs(n), Abs(d))
            s == IF d < 0 THEN -1 ELSE 1
        IN  [n |-> (s * n) \div g, d |-> (s * d) \div g]]

R(n, d) == Lowest[n, d]

Zero == R(0, 1)
One == R(1, 1)

RAdd == [a \in Rat, b \in Rat |-> Lowest[a.n * b.d + b.n * a.d, a.d * b.d]]
RSub == [a \in Rat, b \in Rat |-> Lowest[a.n * b.d - b.n * a.d, a.d * b.d]]
RMul == [a \in Rat, b \in Rat |-> Lowest[a.n * b.n, a.d * b.d]]
RDiv == [a \in Rat, b \in Rat |-> Lowest[a.n * b.d, a.d * b.n]]
RLeq == [a \in Rat, b \in Rat |-> a.n * b.d <= b.n * a.d]
RLt == [a \in Rat, b \in Rat |-> a.n * b.d < b.n * a.d]
RMax == [a \in Rat, b \in Rat |-> IF RLeq[a, b] THEN b ELSE a]
RMin == [a \in Rat, b \in Rat |-> IF RLeq[a, b] THEN a ELSE b]

\* the real number denoted by a descriptor value
Val(v) == R(v, 100)

----------------------------------------------------------------------------
(* Descriptor names                                                        *)

feature_names ==
    << "aspect_ratio", "density", "centroid_x", "centroid_y",
       "compactness", "eccentricity", "solidity", "convexity",
       "stroke_width_mean", "stroke_width_std", "stroke_direction",
       "curvature_mean", "curvature_std", "pressure_variation",
       "pen_lifts", "writing_speed", "acceleration" >>

GeometricKeys ==
    { "aspect_ratio", "density", "centroid_x", "centroid_y",
      "compactness", "eccentricity", "solidity", "convexity" }

StrokeKeys == { "stroke_width_mean", "stroke_width_std", "stroke_direction" }

TextureKeys == { "texture_mean", "texture_std", "gradient_mean", "gradient_std" }

DynamicKeys ==
    { "pressure_variation", "pen_lifts", "writing_speed", "acceleration",
      "curvature_mean", "curvature_std" }

\* variant: a threshold of one half
CONFIDENCE_THRESHOLD_half == R(1, 2)

CONFIDENCE_THRESHOLD == R(7, 10)

----------------------------------------------------------------------------
(* Template comparison                                                     *)

\* variant: the stroke direction takes part in the comparison
weights_with_direction ==
    << [name |-> "aspect_ratio",       weight |-> R(20, 100)],
       [name |-> "density",            weight |-> R(15, 100)],
       [name |-> "centroid_x",         weight |-> R(10, 100)],
       [name |-> "centroid_y",         weight |-> R(10, 100)],
       [name |-> "compactness",        weight |-> R(15, 100)],
       [name |-> "eccentricity",       weight |-> R(10, 100)],
       [name |-> "solidity",           weight |-> R(10, 100)],
       [name |-> "convexity",          weight |-> R(10, 100)],
       [name |-> "stroke_width_mean",  weight |-> R(10, 100)],
       [name |-> "stroke_width_std",   weight |-> R(5, 100)],
       [name |-> "stroke_direction",   weight |-> R(5, 100)],
       [name |-> "curvature_mean",     weight |-> R(5, 100)],
       [name |-> "curvature_std",      weight |-> R(5, 100)],
       [name |-> "pressure_variation", weight |-> R(5, 100)],
       [name |-> "pen_lifts",          weight |-> R(5, 100)],
       [name |-> "writing_speed",      weight |-> R(5, 100)],
       [name |-> "acceleration",       weight |-> R(5, 100)] >>

weights ==
    << [name |-> "aspect_ratio",       weight |-> R(20, 100)],
       [name |-> "density",            weight |-> R(15, 100)],
       [name |-> "centroid_x",         weight |-> R(10, 100)],
       [name |-> "centroid_y",         weight |-> R(10, 100)],
       [name |-> "compactness",        weight |-> R(15, 100)],
       [name |-> "eccentricity",       weight |-> R(10, 100)],
       [name |-> "solidity",           weight |-> R(10, 100)],
       [name |-> "convexity",          weight |-> R(10, 100)],
       [name |-> "stroke_width_mean",  weight |-> R(10, 100)],
       [name |-> "stroke_width_std",   weight |-> R(5, 100)],
       [name |-> "curvature_mean",     weight |-> R(5, 100)],
       [name |-> "curvature_std",      weight |-> R(5, 100)],
       [name |-> "pressure_variation", weight |-> R(5, 100)],
       [name |-> "pen_lifts",          weight |-> R(5, 100)],
       [name |-> "writing_speed",      weight |-> R(5, 100)],
       [name |-> "acceleration",       weight |-> R(5, 100)] >>

RatioFeatures ==
    { "aspect_ratio", "density", "compactness", "eccentricity",
      "solidity", "convexity" }

PositionFeatures == { "centroid_x", "centroid_y" }

StrokeFeatures ==
    { "stroke_width_mean", "stroke_width_std", "curvature_mean", "curvature_std" }

key_features == << "aspect_ratio", "density", "compactness" >>

\* variant: a template value of 0 never counts as matched
RelativeSimilarity_unmatched_zero(feature_val, template_val) ==
    IF template_val > 0
    THEN RMax[Zero, RSub[One, R(Abs(feature_val - template_val), template_val)]]
    ELSE Zero

\* |a - b| / b for b > 0, else the exact-match test with tolerance 0.01
RelativeSimilarity(feature_val, template_val) ==
    IF template_val > 0
    THEN RMax[Zero, RSub[One, R(Abs(feature_val - template_val), template_val)]]
    ELSE IF Abs(feature_val - template_val) < 1 THEN One ELSE Zero

PositionSimilarity(feature_val, template_val) ==
    RMax[Zero, RSub[One, RMul[R(2, 1), Val(Abs(feature_val - template_val))]]]

\* variant: only equal counts are taken as a full match
PenLiftSimilarity_no_tolerance(feature_val, template_val) ==
    LET diff == Abs(feature_val - template_val)
    IN  IF diff = 0
        THEN One
        ELSE RMax[Zero, RSub[One, RMul[Val(diff), R(1, 2)]]]

PenLiftSimilarity(feature_val, template_val) ==
    LET diff == Abs(feature_val - template_val)
    IN  IF diff <= 100
        THEN One
        ELSE RMax[Zero, RSub[One, RMul[Val(diff - 100), R(1, 2)]]]

OtherSimilarity(feature_val, template_val) ==
    LET a == Abs(feature_val)
        b == Abs(template_val)
        max_val == RMax[Val(IF a >= b THEN a ELSE b), R(1, 1000000)]
        diff == Val(Abs(feature_val - template_val))
    IN  RMax[Zero, RSub[One, RDiv[diff, max_val]]]

Similarity(feature_name, feature_val, template_val) ==
    IF feature_name \in RatioFeatures
    THEN RelativeSimilarity(feature_val, template_val)
    ELSE IF feature_name \in PositionFeatures
    THEN PositionSimilarity(feature_val, template_val)
    ELSE IF feature_name \in StrokeFeatures
    THEN RelativeSimilarity(feature_val, template_val)
    ELSE IF feature_name = "pen_lifts"
    THEN PenLiftSimilarity(feature_val, template_val)
    ELSE OtherSimilarity(feature_val, template_val)

\* the positions of the weight table whose feature both sets hold
compared_positions(features, template_features) ==
    { i \in 1..Len(weights) :
        /\ weights[i].name \in DOMAIN features
        /\ weights[i].name \in DOMAIN template_features }

\* variant: the similarity is appended without its weight
similarities_unweighted(features, template_features) ==
    [i \in compared_positions(features, template_features) |->
        Similarity(weights[i].name, features[weights[i].name],
                   template_features[weights[i].name])]

\* the list `similarities` the loop appends to, kept by table position
similarities(features, template_features) ==
    [i \in compared_positions(features, template_features) |->
        RMul[Similarity(weights[i].name, features[weights[i].name],
                        template_features[weights[i].name]),
             weights[i].weight]]

\* variant: every weight of the table is added, compared or not
added_weights_whole_table(features, template_features) ==
    [i \in 1..Len(weights) |-> weights[i].weight]

\* the summands of total_weight, kept by table position
added_weights(features, template_features) ==
    [i \in compared_positions(features, template_features) |-> weights[i].weight]

\* sum() over the entries of s at positions lo..hi; the additions are exact,
\* so the entries are added by halves
RECURSIVE sum(_, _, _)
sum(s, lo, hi) ==
    IF lo >= hi
    THEN IF lo = hi /\ lo \in DOMAIN s THEN s[lo] ELSE Zero
    ELSE RAdd[sum(s, lo, (lo + hi) \div 2), sum(s, (lo + hi) \div 2 + 1, hi)]

\* variant: the top band is not capped at 1
Band_uncapped(authenticity_score) ==
    IF RLeq[R(85, 100), authenticity_score]
    THEN RMul[authenticity_score, R(11, 10)]
    ELSE IF RLeq[R(70, 100), authenticity_score]
    THEN RMul[authenticity_score, R(9, 10)]
    ELSE IF RLeq[R(50, 100), authenticity_score]
    THEN RMul[authenticity_score, R(7, 10)]
    ELSE RMul[authenticity_score, R(5, 10)]

\* the confidence bands
\* variant: the factors of the two middle bands change places
Band_swapped(authenticity_score) ==
    IF RLeq[R(85, 100), authenticity_score]
    THEN RMin[RMul[authenticity_score, R(11, 10)], One]
    ELSE IF RLeq[R(70, 100), authenticity_score]
    THEN RMul[authenticity_score, R(7, 10)]
    ELSE IF RLeq[R(50, 100), authenticity_score]
    THEN RMul[authenticity_score, R(9, 10)]
    ELSE RMul[authenticity_score, R(5, 10)]

Band(authenticity_score) ==
    IF RLeq[R(85, 100), authenticity_score]
    THEN RMin[RMul[authenticity_score, R(11, 10)], One]
    ELSE IF RLeq[R(70, 100), authenticity_score]
    THEN RMul[authenticity_score, R(9, 10)]
    ELSE IF RLeq[R(50, 100), authenticity_score]
    THEN RMul[authenticity_score, R(7, 10)]
    ELSE RMul[authenticity_score, R(5, 10)]

\* the relative differences collected for the key features
key_differences(features, template_features) ==
    { R(Abs(features[key_features[i]] - template_features[key_features[i]]),
        template_features[key_features[i]]) :
      i \in { j \in 1..Len(key_features) :
                /\ key_features[j] \in DOMAIN features
                /\ key_features[j] \in DOMAIN template_features
                /\ template_features[key_features[j]] > 0 } }

\* variant: a difference of exactly 50 percent already counts
KeyFeatureGuard_from_half(features, template_features) ==
    \E rel_diff \in key_differences(features, template_features) :
        RLeq[R(1, 2), rel_diff]

KeyFeatureGuard(features, template_features) ==
    \E rel_diff \in key_differences(features, template_features) :
        RLt[R(1, 2), rel_diff]

\* returns the (score, confidence) pair of the code, and with it the
\* intermediate values the pair was computed from
compare_with_template(features, template_features) ==
    LET appended == similarities(features, template_features)
        count == Cardinality(DOMAIN appended)
        total_weight == sum(added_weights(features, template_features),
                            1, Len(weights))
    IN  IF appended # << >> /\ RLt[Zero, total_weight]
        THEN LET average == RDiv[sum(appended, 1, Len(weights)), total_weight]
                 banded == Band(average)
                 guard == KeyFeatureGuard(features, template_features)
             IN  [score |-> IF guard THEN RMul[average, R(7, 10)] ELSE average,
                  confidence |-> IF guard THEN RMul[banded, R(8, 10)] ELSE banded,
                  overlap |-> TRUE, average |-> average, banded |-> banded,
                  guard |-> guard,
                  total_weight |-> total_weight, count |-> count]
        ELSE [score |-> Zero, confidence |-> Zero,
              overlap |-> FALSE, average |-> Zero, banded |-> Zero,
              guard |-> FALSE,
              total_weight |-> total_weight, count |-> count]

----------------------------------------------------------------------------
(* Rule heuristic and array conversion                                     *)

\* variant: a name the mapping lacks gets no entry
features_to_array_present_only(features) ==
    LET present(name) == name \in DOMAIN features
        names == SelectSeq(feature_names, present)
    IN  [i \in 1..Len(names) |-> features[names[i]]]

features_to_array(features) ==
    [i \in 1..Len(feature_names) |->
        IF feature_names[i] \in DOMAIN features
        THEN features[feature_names[i]] ELSE 0]

Bonus(cond, amount) == IF cond THEN amount ELSE Zero

\* variant: each centroid coordinate earns 0.1
rule_based_analysis_even_bonus(feature_array) ==
    LET score ==
          IF Len(feature_array) > 0
          THEN RAdd[R(5, 10),
               RAdd[Bonus(20 < feature_array[1] /\ feature_array[1] < 500, R(10, 100)),
               RAdd[Bonus(1 < feature_array[2] /\ feature_array[2] < 50, R(10, 100)),
               RAdd[Bonus(20 < feature_array[3] /\ feature_array[3] < 80, R(10, 100)),
               RAdd[Bonus(20 < feature_array[4] /\ feature_array[4] < 80, R(10, 100)),
                    Bonus(10 < feature_array[5] /\ feature_array[5] < 200, R(10, 100))]]]]]
          ELSE R(5, 10)
        authenticity_score == RMin[score, One]
    IN  [score |-> authenticity_score,
         confidence |-> RMul[authenticity_score, R(8, 10)]]

\* variant: the ends of the intervals earn the bonus too
rule_based_analysis_closed(feature_array) ==
    LET score ==
          IF Len(feature_array) > 0
          THEN RAdd[R(5, 10),
               RAdd[Bonus(20 <= feature_array[1] /\ feature_array[1] <= 500, R(10, 100)),
               RAdd[Bonus(1 <= feature_array[2] /\ feature_array[2] <= 50, R(10, 100)),
               RAdd[Bonus(20 <= feature_array[3] /\ feature_array[3] <= 80, R(5, 100)),
               RAdd[Bonus(20 <= feature_array[4] /\ feature_array[4] <= 80, R(5, 100)),
                    Bonus(10 <= feature_array[5] /\ feature_array[5] <= 200, R(10, 100))]]]]]
          ELSE R(5, 10)
        authenticity_score == RMin[score, One]
    IN  [score |-> authenticity_score,
         confidence |-> RMul[authenticity_score, R(8, 10)]]

\* variant: the base score is 0.6
rule_based_analysis_base_six(feature_array) ==
    LET score ==
          IF Len(feature_array) > 0
          THEN RAdd[R(6, 10),
               RAdd[Bonus(20 < feature_array[1] /\ feature_array[1] < 500, R(10, 100)),
               RAdd[Bonus(1 < feature_array[2] /\ feature_array[2] < 50, R(10, 100)),
               RAdd[Bonus(20 < feature_array[3] /\ feature_array[3] < 80, R(5, 100)),
               RAdd[Bonus(20 < feature_array[4] /\ feature_array[4] < 80, R(5, 100)),
                    Bonus(10 < feature_array[5] /\ feature_array[5] < 200, R(10, 100))]]]]]
          ELSE R(6, 10)
        authenticity_score == RMin[score, One]
    IN  [score |-> authenticity_score,
         confidence |-> RMul[authenticity_score, R(8, 10)]]

rule_based_analysis(feature_array) ==
    LET score ==
          IF Len(feature_array) > 0
          THEN RAdd[R(5, 10),
               RAdd[Bonus(20 < feature_array[1] /\ feature_array[1] < 500, R(10, 100)),
               RAdd[Bonus(1 < feature_array[2] /\ feature_array[2] < 50, R(10, 100)),
               RAdd[Bonus(20 < feature_array[3] /\ feature_array[3] < 80, R(5, 100)),
               RAdd[Bonus(20 < feature_array[4] /\ feature_array[4] < 80, R(5, 100)),
                    Bonus(10 < feature_array[5] /\ feature_array[5] < 200, R(10, 100))]]]]]
          ELSE R(5, 10)
        authenticity_score == RMin[score, One]
    IN  [score |-> authenticity_score,
         confidence |-> RMul[authenticity_score, R(8, 10)]]

----------------------------------------------------------------------------
(* Inputs: the descriptor sets an image can yield and a template can hold  *)

MaxLevel == 4
MaxTrain == 2

MIN_SAMPLES == 10

\* the weighted averages handed to the banding are the multiples of
\* 1/ScoreSteps in [0, 1]
ScoreSteps == 100

\* the pen_lifts counts compared with each other are 0..MaxLifts
MaxLifts == 4

\* the width in pixels of the ink masks whose strokes are counted
MaxWidth == 5

Groups == { "geometric", "stroke", "texture", "dynamic" }

KeysOf(g) ==
    IF g = "geometric" THEN GeometricKeys
    ELSE IF g = "stroke" THEN StrokeKeys
    ELSE IF g = "texture" THEN TextureKeys
    ELSE DynamicKeys

AllKeys == UNION { KeysOf(g) : g \in Groups }

\* a complete descriptor set: every sub-extraction contributed
Base ==
    [k \in AllKeys |->
        CASE k = "aspect_ratio" -> 100
          [] k = "density" -> 10
          [] k = "centroid_x" -> 50
          [] k = "centroid_y" -> 50
          [] k = "compactness" -> 100
          [] k = "eccentricity" -> 70
          [] k = "solidity" -> 80
          [] k = "convexity" -> 90
          [] k = "stroke_width_mean" -> 300
          [] k = "stroke_width_std" -> 50
          [] k = "stroke_direction" -> 120
          [] k = "curvature_mean" -> 10
          [] k = "curvature_std" -> 5
          [] k = "pressure_variation" -> 20
          [] k = "pen_lifts" -> 200
          [] k = "writing_speed" -> 80
          [] k = "acceleration" -> 30
          [] k = "texture_mean" -> 500
          [] k = "texture_std" -> 200
          [] k = "gradient_mean" -> 40
          [] k = "gradient_std" -> 60]

\* the features whose value is varied, and the distance between two levels
VariedKeys ==
    { "aspect_ratio", "density", "centroid_x", "centroid_y", "compactness",
      "stroke_width_mean", "stroke_direction", "pen_lifts", "writing_speed" }

Step(k) ==
    CASE k = "aspect_ratio" -> 100
      [] k = "density" -> 10
      [] k = "centroid_x" -> 25
      [] k = "centroid_y" -> 25
      [] k = "compactness" -> 50
      [] k = "stroke_width_mean" -> 100
      [] k = "stroke_direction" -> 60
      [] k = "pen_lifts" -> 100
      [] k = "writing_speed" -> 20

Restrict(f, S) == [k \in (DOMAIN f) \cap S |-> f[k]]

Vary(f, key, v) == [k \in DOMAIN f |-> IF k = key THEN v ELSE f[k]]

\* what extraction returns when exactly the sub-extractions in gs contribute
Partial(gs) == Restrict(Base, UNION { KeysOf(g) : g \in gs })

Descriptors ==
    { Partial(gs) : gs \in SUBSET Groups }
        \cup { Vary(Base, k, i * Step(k)) : k \in VariedKeys, i \in 0..MaxLevel }

EmptySet == Partial({})

\* probabilities a fitted two-class classifier can report for the class at index 1
ProbVals == { Zero, R(1, 2), R(7, 10), One }

----------------------------------------------------------------------------
(* The analyzer                                                            *)

VARIABLES
    model,         \* self.model: the classifier object, or none
    scaler,        \* self.scaler: the StandardScaler object
    is_trained,    \* self.is_trained
    store,         \* the two files of the model store
    runs,          \* training runs started so far
    result,        \* the record the last analyze call returned
    train_result,  \* the last train_model call: what it was given, what it
                   \* returned, and the analyzer and store it started from
    compared,      \* the last direct call of the template comparator
    tpc,           \* position of a train_model call running beside analyses
    apc,           \* position of an analyze call running beside it
    seen,          \* what that analyze call has read so far
    probe,         \* the last direct call of one of the pure functions
    template_row   \* the SignatureTemplate row the last named upload stored

vars == << model, scaler, is_trained, store, runs, result, train_result,
           compared, tpc, apc, seen, probe, template_row >>

\* gen names the training run that fitted the object; 0 is a fit made before
\* this process started.  classes is classes_ of the fitted classifier: the
\* labels of its training samples (0: fake, 1: authentic), in rising order
NoModel == [obj |-> FALSE, fitted |-> FALSE, gen |-> 0, classes |-> {}]
NewModel == [obj |-> TRUE, fitted |-> FALSE, gen |-> 0, classes |-> {}]
FittedModel(g, c) == [obj |-> TRUE, fitted |-> TRUE, gen |-> g, classes |-> c]

FreshScaler == [fitted |-> FALSE, gen |-> 0]
FittedScaler(g) == [fitted |-> TRUE, gen |-> g]

Absent == [st |-> "absent", gen |-> 0, classes |-> {}]
Corrupt == [st |-> "corrupt", gen |-> 0, classes |-> {}]
Saved(g, c) == [st |-> "ok", gen |-> g, classes |-> c]

\* variant: the except clause of _load_model leaves the flag set
load_model_flag_kept(files) ==
    IF files.model.st # "absent" /\ files.scaler.st # "absent"
    THEN IF files.model.st = "corrupt"
         THEN [model |-> NoModel, scaler |-> FreshScaler, is_trained |-> TRUE]
         ELSE IF files.scaler.st = "corrupt"
         THEN [model |-> FittedModel(files.model.gen, files.model.classes),
               scaler |-> FreshScaler, is_trained |-> TRUE]
         ELSE [model |-> FittedModel(files.model.gen, files.model.classes),
               scaler |-> FittedScaler(files.scaler.gen), is_trained |-> TRUE]
    ELSE [model |-> NoModel, scaler |-> FreshScaler, is_trained |-> FALSE]

\* the state __init__ leaves behind, _load_model included
load_model(files) ==
    IF files.model.st # "absent" /\ files.scaler.st # "absent"
    THEN IF files.model.st = "corrupt"
         THEN [model |-> NoModel, scaler |-> FreshScaler, is_trained |-> FALSE]
         ELSE IF files.scaler.st = "corrupt"
         THEN [model |-> FittedModel(files.model.gen, files.model.classes),
               scaler |-> FreshScaler, is_trained |-> FALSE]
         ELSE [model |-> FittedModel(files.model.gen, files.model.classes),
               scaler |-> FittedScaler(files.scaler.gen), is_trained |-> TRUE]
    ELSE [model |-> NoModel, scaler |-> FreshScaler, is_trained |-> FALSE]

\* prob is what predict_proba reports at index 1 when the model knows two
\* classes; a model fitted on one label reports the single entry [1.0]
predict_authenticity(feature_array, prob) ==
    IF ~is_trained
    THEN [strategy |-> "rule"] @@ rule_based_analysis(feature_array)
    ELSE IF ~scaler.fitted \/ ~model.obj \/ ~model.fitted
    THEN [strategy |-> "rule"] @@ rule_based_analysis(feature_array)
    ELSE LET authenticity_score == IF Cardinality(model.classes) > 1 THEN prob ELSE One
         IN  [strategy |-> "model", score |-> authenticity_score,
              confidence |-> authenticity_score]

\* variant: a score equal to the threshold is not accepted
IsAuthentic_strict(authenticity_score) == RLt[CONFIDENCE_THRESHOLD, authenticity_score]

IsAuthentic(authenticity_score) == RLeq[CONFIDENCE_THRESHOLD, authenticity_score]

\* variant: the report recommends "Authentic" only above the threshold
generate_analysis_details_above(features, authenticity_score) ==
    [overall_score |-> authenticity_score,
     recommendation |-> IF RLt[CONFIDENCE_THRESHOLD, authenticity_score]
                        THEN "Authentic" ELSE "Suspicious"]

generate_analysis_details(features, authenticity_score) ==
    [overall_score |-> authenticity_score,
     recommendation |-> IF RLeq[CONFIDENCE_THRESHOLD, authenticity_score]
                        THEN "Authentic" ELSE "Suspicious"]

NoDetails == [overall_score |-> Zero, recommendation |-> "none"]

NoCompare ==
    [overlap |-> FALSE, average |-> Zero, banded |-> Zero, guard |-> FALSE,
     total_weight |-> Zero, count |-> 0]

\* a None template is given = FALSE; `if template_features:` takes the
\* comparison branch for a mapping that is not empty
TemplateBranch(given, template_features) ==
    given /\ DOMAIN template_features # {}

FailureRecord(kind, fault, features, given, template_features) ==
    [status |-> kind, authenticity_score |-> Zero, confidence_level |-> Zero,
     is_authentic |-> FALSE, details |-> NoDetails, has_features |-> FALSE,
     strategy |-> "none", fault |-> fault, features |-> features,
     given |-> given, template |-> template_features, cmp |-> NoCompare,
     outcome |-> "returned", proba |-> One]

\* what the comparator hands back to analyze_signature
template_outcome(c) ==
    [strategy |-> "template", score |-> c.score, confidence |-> c.confidence,
     proba |-> One,
     cmp |-> [overlap |-> c.overlap, average |-> c.average, banded |-> c.banded,
              guard |-> c.guard, total_weight |-> c.total_weight,
              count |-> c.count]]

\* the record returned once a score and a confidence are known
SuccessRecord(r, fault, features, given, template_features) ==
    [status |-> "ok",
     authenticity_score |-> r.score,
     confidence_level |-> r.confidence,
     is_authentic |-> IsAuthentic(r.score),
     details |-> generate_analysis_details(features, r.score),
     has_features |-> TRUE,
     strategy |-> r.strategy, fault |-> fault, features |-> features,
     given |-> given, template |-> template_features, cmp |-> r.cmp,
     outcome |-> "returned", proba |-> r.proba]

\* variant: an empty descriptor set is scored like any other
analyze_signature_unchecked(fault, features, given, template_features, prob) ==
    IF fault # "none"
    THEN FailureRecord("exception", fault, features, given, template_features)
    ELSE SuccessRecord(
             IF TemplateBranch(given, template_features)
             THEN template_outcome(compare_with_template(features, template_features))
             ELSE [cmp |-> NoCompare, proba |-> prob]
                    @@ predict_authenticity(features_to_array(features), prob),
             fault, features, given, template_features)

\* fault: the stage of image handling that raises, if any; features: what
\* extract_all_features returns for the image; prob: the probability of the
\* authentic class the classifier has for it (kept in the record as proba).  Every path ends in a return
\* statement (outcome "returned"): the except clause turns whatever was
\* raised into a record
analyze_signature(fault, features, given, template_features, prob) ==
    IF fault # "none"
    THEN FailureRecord("exception", fault, features, given, template_features)
    ELSE IF DOMAIN features = {}
    THEN FailureRecord("no_features", fault, features, given, template_features)
    ELSE SuccessRecord(
             IF TemplateBranch(given, template_features)
             THEN template_outcome(compare_with_template(features, template_features))
             ELSE [cmp |-> NoCompare, proba |-> prob]
                    @@ predict_authenticity(features_to_array(features), prob),
             fault, features, given, template_features)

NoResult == FailureRecord("none", "none", EmptySet, FALSE, EmptySet)

\* train_model as one call.  n: number of samples; classes: the labels
\* found among them; fault: the step that raises, if any; reset:
\* whether a fit that raises has already cleared the scaler; damaged: whether
\* a dump that raises has already truncated its file
TrainFaults ==
    { "none", "prepare", "scaler_fit", "model_fit", "makedirs",
      "dump_model", "dump_scaler" }

save_model(files, m, sc, fault, damaged) ==
    IF fault = "makedirs"
    THEN files
    ELSE IF fault = "dump_model"
    THEN [files EXCEPT !.model = IF damaged THEN Corrupt ELSE @]
    ELSE IF fault = "dump_scaler"
    THEN [model |-> Saved(m.gen, m.classes),
          scaler |-> IF damaged THEN Corrupt ELSE files.scaler]
    ELSE [model |-> Saved(m.gen, m.classes), scaler |-> Saved(sc.gen, {})]

\* variant: the sample count is looked at only after the scaler was refitted
train_model_late_check(n, classes, fault, reset, damaged, g) ==
    LET same == [model |-> model, scaler |-> scaler, is_trained |-> is_trained,
                 store |-> store, ret |-> "False"]
    IN  IF n = 0 THEN same
        ELSE IF fault = "prepare" THEN same
        ELSE IF fault = "scaler_fit"
        THEN [same EXCEPT !.scaler = IF reset THEN FreshScaler ELSE @]
        ELSE IF n < MIN_SAMPLES
        THEN [same EXCEPT !.scaler = FittedScaler(g)]
        ELSE IF fault = "model_fit"
        THEN [same EXCEPT !.scaler = FittedScaler(g), !.model = NewModel]
        ELSE [model |-> FittedModel(g, classes),
              scaler |-> FittedScaler(g),
              is_trained |-> TRUE,
              store |-> save_model(store, FittedModel(g, classes),
                                   FittedScaler(g), fault, damaged),
              ret |-> "True"]

train_model(n, classes, fault, reset, damaged, g) ==
    LET same == [model |-> model, scaler |-> scaler, is_trained |-> is_trained,
                 store |-> store, ret |-> "False"]
    IN  IF n = 0 THEN same
        ELSE IF fault = "prepare" THEN same
        ELSE IF n < MIN_SAMPLES THEN same
        ELSE IF fault = "scaler_fit"
        THEN [same EXCEPT !.scaler = IF reset THEN FreshScaler ELSE @]
        ELSE IF fault = "model_fit"
        THEN [same EXCEPT !.scaler = FittedScaler(g), !.model = NewModel]
        ELSE [model |-> FittedModel(g, classes),
              scaler |-> FittedScaler(g),
              is_trained |-> TRUE,
              store |-> save_model(store, FittedModel(g, classes),
                                   FittedScaler(g), fault, damaged),
              ret |-> "True"]

----------------------------------------------------------------------------
(* Calls made one at a time                                                *)

\* no train_model call has returned a value that is still to be taken
NoTrainResult ==
    [ret |-> "none", n |-> 0, classes |-> {}, fault |-> "none",
     before |-> [model |-> NoModel, scaler |-> FreshScaler,
                 is_trained |-> FALSE,
                 store |-> [model |-> Absent, scaler |-> Absent]]]

\* no pure function has been called
NoProbe == [op |-> "none"]

\* no template has been stored
NoRow == [stored |-> FALSE, yields |-> EmptySet, lines |-> FALSE,
          features_json |-> [kind |-> "None", members |-> {}]]

InitialStores ==
    { [model |-> Absent, scaler |-> Absent],
      [model |-> Saved(0, { 0, 1 }), scaler |-> Saved(0, {})],
      [model |-> Saved(0, { 0, 1 }), scaler |-> Absent],
      [model |-> Corrupt, scaler |-> Saved(0, {})],
      [model |-> Saved(0, { 0, 1 }), scaler |-> Corrupt] }

\* the descriptor sets the upload and verify handlers are driven with
Images ==
    { Partial(gs) :
        gs \in { {}, { "texture" }, { "geometric" }, { "stroke", "dynamic" },
                 Groups } }

NoSeen ==
    [trained |-> FALSE, strategy |-> "none", scaler_gen |-> 0,
     model_gen |-> 0, model_fitted |-> FALSE]

NoCompared ==
    [called |-> FALSE, features |-> EmptySet, template |-> EmptySet,
     out |-> compare_with_template(EmptySet, EmptySet)]

Init ==
    /\ store \in InitialStores
    /\ model = load_model(store).model
    /\ scaler = load_model(store).scaler
    /\ is_trained = load_model(store).is_trained
    /\ runs = 0
    /\ result = NoResult
    /\ train_result = NoTrainResult
    /\ compared = NoCompared
    /\ tpc = "idle"
    /\ apc = "idle"
    /\ seen = NoSeen
    /\ probe = NoProbe
    /\ template_row = NoRow

Quiet ==
    /\ result.status = "none"
    /\ train_result.ret = "none"
    /\ ~compared.called
    /\ probe.op = "none"

\* the process starts again: __init__ runs against the model store
Construct ==
    /\ Quiet
    /\ model' = load_model(store).model
    /\ scaler' = load_model(store).scaler
    /\ is_trained' = load_model(store).is_trained
    /\ UNCHANGED << store, runs, result, train_result, compared, tpc, apc,
                    seen, probe, template_row >>

\* variant: the prediction fits the scaler on the vector it is given
AnalyzeAlone_refitting ==
    /\ Quiet
    /\ \E features \in Images :
       \E prob \in IF is_trained /\ Cardinality(model.classes) > 1 THEN ProbVals ELSE { One } :
          result' = analyze_signature("none", features, FALSE, EmptySet, prob)
    /\ scaler' = IF is_trained THEN FittedScaler(runs + 1) ELSE scaler
    /\ UNCHANGED << model, is_trained, store, runs, train_result,
                    compared, tpc, apc, seen, probe, template_row >>

\* analyze_signature(image_data) of the upload handler
AnalyzeAlone ==
    /\ Quiet
    /\ \E features \in Images :
       \E prob \in IF is_trained /\ Cardinality(model.classes) > 1 THEN ProbVals ELSE { One } :
          result' = analyze_signature("none", features, FALSE, EmptySet, prob)
    /\ UNCHANGED << model, scaler, is_trained, store, runs, train_result,
                    compared, tpc, apc, seen, probe, template_row >>

\* analyze_signature(image_data, template_features) of the verify handler
AnalyzeWithTemplate ==
    /\ Quiet
    /\ \E features \in Images, template_features \in Images :
       \E prob \in IF is_trained /\ Cardinality(model.classes) > 1
                      /\ DOMAIN template_features = {}
                   THEN ProbVals ELSE { One } :
          result' = analyze_signature("none", features, TRUE,
                                      template_features, prob)
    /\ UNCHANGED << model, scaler, is_trained, store, runs, train_result,
                    compared, tpc, apc, seen, probe, template_row >>

\* an image that cannot be decoded, or that preprocessing rejects
AnalyzeBadImage ==
    /\ Quiet
    /\ \E fault \in { "decode", "preprocess" }, given \in BOOLEAN :
          result' = analyze_signature(fault, EmptySet, given,
                                      IF given THEN Base ELSE EmptySet, One)
    /\ UNCHANGED << model, scaler, is_trained, store, runs, train_result,
                    compared, tpc, apc, seen, probe, template_row >>

Train ==
    /\ Quiet
    /\ runs < MaxTrain
    /\ \E n \in { 0, MIN_SAMPLES - 1, MIN_SAMPLES, MIN_SAMPLES + 1 },
          classes \in { { 0 }, { 1 }, { 0, 1 } }, fault \in TrainFaults,
          reset \in BOOLEAN, damaged \in BOOLEAN :
          LET t == train_model(n, classes, fault, reset, damaged, runs + 1)
          IN  /\ model' = t.model
              /\ scaler' = t.scaler
              /\ is_trained' = t.is_trained
              /\ store' = t.store
              /\ train_result' =
                   [ret |-> t.ret, n |-> n, classes |-> classes, fault |-> fault,
                    before |-> [model |-> model, scaler |-> scaler,
                                is_trained |-> is_trained, store |-> store]]
    /\ runs' = runs + 1
    /\ UNCHANGED << result, compared, tpc, apc, seen, probe, template_row >>

\* the caller takes the returned value
Return ==
    /\ ~Quiet
    /\ result' = NoResult
    /\ train_result' = NoTrainResult
    /\ compared' = NoCompared
    /\ probe' = NoProbe
    /\ UNCHANGED << model, scaler, is_trained, store, runs, tpc, apc, seen,
                    template_row >>

Next ==
    \/ Construct
    \/ AnalyzeAlone
    \/ AnalyzeWithTemplate
    \/ AnalyzeBadImage
    \/ Train
    \/ Return

Spec == Init /\ [][Next]_vars

----------------------------------------------------------------------------
(* The template comparator called on its own                               *)

Compare ==
    /\ Quiet
    /\ \E features \in Descriptors, template_features \in Descriptors :
          compared' = [called |-> TRUE, features |-> features,
                       template |-> template_features,
                       out |-> compare_with_template(features, template_features)]
    /\ UNCHANGED << model, scaler, is_trained, store, runs, result,
                    train_result, tpc, apc, seen, probe, template_row >>

NextCompare ==
    \/ Compare
    \/ Return

SpecCompare == Init /\ [][NextCompare]_vars

----------------------------------------------------------------------------
(* train_model running beside an analyze call on the shared analyzer.      *)
(* Neither method takes a lock; each step below is one statement of the    *)
(* method, and the steps of the two calls interleave freely.               *)

\* train_model is entered with enough samples of both labels
TrainBegin ==
    /\ tpc = "idle"
    /\ runs < MaxTrain
    /\ runs' = runs + 1
    /\ tpc' = "fit_scaler"
    /\ UNCHANGED << model, scaler, is_trained, store, result, train_result,
                    compared, apc, seen, probe, template_row >>

\* X_scaled = self.scaler.fit_transform(X): the shared scaler is refitted
TrainFitScaler ==
    /\ tpc = "fit_scaler"
    /\ scaler' = FittedScaler(runs)
    /\ tpc' = "new_model"
    /\ UNCHANGED << model, is_trained, store, runs, result, train_result,
                    compared, apc, seen, probe, template_row >>

\* self.model = RandomForestClassifier(...)
TrainNewModel ==
    /\ tpc = "new_model"
    /\ model' = NewModel
    /\ tpc' = "fit_model"
    /\ UNCHANGED << scaler, is_trained, store, runs, result, train_result,
                    compared, apc, seen, probe, template_row >>

\* self.model.fit(X_scaled, y)
TrainFitModel ==
    /\ tpc = "fit_model"
    /\ model' = FittedModel(runs, { 0, 1 })
    /\ tpc' = "save"
    /\ UNCHANGED << scaler, is_trained, store, runs, result, train_result,
                    compared, apc, seen, probe, template_row >>

\* self._save_model()
TrainSave ==
    /\ tpc = "save"
    /\ store' = save_model(store, model, scaler, "none", FALSE)
    /\ tpc' = "flag"
    /\ UNCHANGED << model, scaler, is_trained, runs, result, train_result,
                    compared, apc, seen, probe, template_row >>

\* self.is_trained = True; return True
TrainFlag ==
    /\ tpc = "flag"
    /\ is_trained' = TRUE
    /\ tpc' = "idle"
    /\ UNCHANGED << model, scaler, store, runs, result, train_result,
                    compared, apc, seen, probe, template_row >>

\* analyze_signature without a template reaches _predict_authenticity
PredictBegin ==
    /\ apc = "idle"
    /\ apc' = "check"
    /\ seen' = NoSeen
    /\ UNCHANGED << model, scaler, is_trained, store, runs, result,
                    train_result, compared, tpc, probe, template_row >>

\* if not self.is_trained: return self._rule_based_analysis(...)
PredictCheck ==
    /\ apc = "check"
    /\ IF is_trained
       THEN /\ seen' = [seen EXCEPT !.trained = TRUE]
            /\ apc' = "transform"
       ELSE /\ seen' = [seen EXCEPT !.strategy = "rule"]
            /\ apc' = "done"
    /\ UNCHANGED << model, scaler, is_trained, store, runs, result,
                    train_result, compared, tpc, probe, template_row >>

\* self.scaler.transform(...); an unfitted scaler raises
PredictTransform ==
    /\ apc = "transform"
    /\ IF scaler.fitted
       THEN /\ seen' = [seen EXCEPT !.scaler_gen = scaler.gen]
            /\ apc' = "predict"
       ELSE /\ seen' = [seen EXCEPT !.strategy = "rule"]
            /\ apc' = "done"
    /\ UNCHANGED << model, scaler, is_trained, store, runs, result,
                    train_result, compared, tpc, probe, template_row >>

\* self.model.predict_proba(...); no model or an unfitted model raises, and
\* the except branch falls back to the rule heuristic
PredictProba ==
    /\ apc = "predict"
    /\ seen' = [seen EXCEPT !.model_gen = model.gen,
                            !.model_fitted = model.obj /\ model.fitted,
                            !.strategy = IF model.obj /\ model.fitted
                                         THEN "model" ELSE "rule"]
    /\ apc' = "done"
    /\ UNCHANGED << model, scaler, is_trained, store, runs, result,
                    train_result, compared, tpc, probe, template_row >>

PredictReturn ==
    /\ apc = "done"
    /\ apc' = "idle"
    /\ seen' = NoSeen
    /\ UNCHANGED << model, scaler, is_trained, store, runs, result,
                    train_result, compared, tpc, probe, template_row >>

NextConc ==
    \/ TrainBegin
    \/ TrainFitScaler
    \/ TrainNewModel
    \/ TrainFitModel
    \/ TrainSave
    \/ TrainFlag
    \/ PredictBegin
    \/ PredictCheck
    \/ PredictTransform
    \/ PredictProba
    \/ PredictReturn

SpecConc == Init /\ [][NextConc]_vars

----------------------------------------------------------------------------
(* The descriptor conversions and the comparator's pieces called on their   *)
(* own                                                                     *)

\* extract_all_features with the objects it puts into the dictionary.  d:
\* the numbers the sub-extractions yield; lines: whether cv2.HoughLines found
\* a line in the skeleton.  type is the Python type of the value ("float"
\* includes numpy.float64, which is a float); the mean of the Hough angles
\* is a numpy.float32, and without lines the direction is the int 0
extract_all_features(d, lines) ==
    [k \in DOMAIN d |->
        IF k = "stroke_direction"
        THEN IF lines THEN [type |-> "float32", v |-> d[k]]
                      ELSE [type |-> "int", v |-> 0]
        ELSE IF k = "pen_lifts"
        THEN [type |-> "int", v |-> d[k]]
        ELSE [type |-> "float", v |-> d[k]]]

\* the types json.dumps has an encoding for
JSONSerializable == { "float", "int" }

\* a number as json.dumps writes it: an int in decimal digits, a float by
\* repr, which always carries a fraction or an exponent
Literal(x) ==
    IF x.type = "int"
    THEN [form |-> "integer", digits |-> x.v \div 100]
    ELSE [form |-> "real", digits |-> x.v]

\* the number json.loads makes of a literal
Number(lit) ==
    IF lit.form = "integer"
    THEN [type |-> "int", v |-> lit.digits * 100]
    ELSE [type |-> "float", v |-> lit.digits]

EmptyObject == [kind |-> "object", members |-> {}]

json_dumps(obj) ==
    IF \E k \in DOMAIN obj : obj[k].type \notin JSONSerializable
    THEN [kind |-> "TypeError", members |-> {}]
    ELSE [kind |-> "object",
          members |-> { << k, Literal(obj[k]) >> : k \in DOMAIN obj }]

features_to_json(features) ==
    LET text == json_dumps(features)
    IN  IF text.kind = "TypeError" THEN EmptyObject ELSE text

\* kind "object", "array", "null": a JSON text of that value; "malformed": a
\* str that is no JSON text; "None": no str at all
json_loads(text) ==
    IF text.kind = "object"
    THEN [kind |-> "dict",
          value |-> [k \in { mem[1] : mem \in text.members } |->
                        Number((CHOOSE mem \in text.members : mem[1] = k)[2])]]
    ELSE IF text.kind = "array" THEN [kind |-> "list", value |-> << >>]
    ELSE IF text.kind = "null" THEN [kind |-> "None", value |-> << >>]
    ELSE IF text.kind = "malformed"
    THEN [kind |-> "JSONDecodeError", value |-> << >>]
    ELSE [kind |-> "TypeError", value |-> << >>]

\* variant: what json.loads raises is handed on to the caller
features_from_json_uncaught(features_json) == json_loads(features_json)

features_from_json(features_json) ==
    LET loaded == json_loads(features_json)
    IN  IF loaded.kind \in { "JSONDecodeError", "TypeError" }
        THEN [kind |-> "dict", value |-> << >>]
        ELSE loaded

\* upload_signature stores the descriptor set of an image as text and
\* verify_signature reads it back
RoundTrip ==
    /\ Quiet
    /\ \E d \in Images, lines \in BOOLEAN :
          probe' = [op |-> "round_trip",
                    features |-> extract_all_features(d, lines),
                    text |-> features_to_json(extract_all_features(d, lines)),
                    out |-> features_from_json(
                                features_to_json(extract_all_features(d, lines)))]
    /\ UNCHANGED << model, scaler, is_trained, store, runs, result,
                    train_result, compared, tpc, apc, seen, template_row >>

\* the stored texts features_from_json is called with: texts written by
\* features_to_json, other JSON values, text that is no JSON, and the None
\* of a features_json column that was never filled
Texts ==
    { features_to_json(extract_all_features(d, FALSE)) : d \in Images }
        \cup { [kind |-> k, members |-> {}] :
                  k \in { "array", "null", "malformed", "None" } }

FromJson ==
    /\ Quiet
    /\ \E text \in Texts :
          probe' = [op |-> "from_json", text |-> text,
                    out |-> features_from_json(text)]
    /\ UNCHANGED << model, scaler, is_trained, store, runs, result,
                    train_result, compared, tpc, apc, seen, template_row >>

\* the banding applied to two weighted averages i/ScoreSteps <= j/ScoreSteps
BandPair ==
    /\ Quiet
    /\ \E i \in 0..ScoreSteps, j \in 0..ScoreSteps :
          /\ i <= j
          /\ probe' = [op |-> "band",
                       s1 |-> R(i, ScoreSteps), s2 |-> R(j, ScoreSteps),
                       c1 |-> Band(R(i, ScoreSteps)),
                       c2 |-> Band(R(j, ScoreSteps))]
    /\ UNCHANGED << model, scaler, is_trained, store, runs, result,
                    train_result, compared, tpc, apc, seen, template_row >>

\* the comparator's similarity of two pen_lifts counts
PenLifts ==
    /\ Quiet
    /\ \E a \in 0..MaxLifts, b \in 0..MaxLifts :
          probe' = [op |-> "pen_lifts", a |-> a, b |-> b,
                    similarity |-> Similarity("pen_lifts", a * 100, b * 100)]
    /\ UNCHANGED << model, scaler, is_trained, store, runs, result,
                    train_result, compared, tpc, apc, seen, template_row >>

\* _features_to_array called with a descriptor mapping
ToArray ==
    /\ Quiet
    /\ \E features \in Descriptors :
          probe' = [op |-> "to_array", features |-> features,
                    out |-> features_to_array(features)]
    /\ UNCHANGED << model, scaler, is_trained, store, runs, result,
                    train_result, compared, tpc, apc, seen, template_row >>

\* the features the rule heuristic looks at
RuleKeys ==
    { "aspect_ratio", "density", "centroid_x", "centroid_y", "compactness" }

\* per feature: the two ends of the interval that earns the bonus, and a
\* value inside it
RuleLevels(k) ==
    IF k = "aspect_ratio" THEN [lo |-> 20, mid |-> 100, hi |-> 500]
    ELSE IF k = "density" THEN [lo |-> 1, mid |-> 10, hi |-> 50]
    ELSE IF k = "compactness" THEN [lo |-> 10, mid |-> 100, hi |-> 200]
    ELSE [lo |-> 20, mid |-> 50, hi |-> 80]

\* descriptor sets that hold any part of the five features, each at an end
\* of its interval or inside it
RuleDescriptors ==
    { [k \in S |-> IF at[k] = "lo" THEN RuleLevels(k).lo
                   ELSE IF at[k] = "mid" THEN RuleLevels(k).mid
                   ELSE RuleLevels(k).hi] :
        at \in [RuleKeys -> { "lo", "mid", "hi" }], S \in SUBSET RuleKeys }

\* _rule_based_analysis called with the array of a descriptor set
RuleBased ==
    /\ Quiet
    /\ \E features \in RuleDescriptors :
          probe' = [op |-> "rule", features |-> features,
                    out |-> rule_based_analysis(features_to_array(features))]
    /\ UNCHANGED << model, scaler, is_trained, store, runs, result,
                    train_result, compared, tpc, apc, seen, template_row >>

\* dict.update
update(features, more) ==
    [k \in (DOMAIN features) \cup (DOMAIN more) |->
        IF k \in DOMAIN more THEN more[k] ELSE features[k]]

\* one of _extract_geometric_features, _extract_stroke_features,
\* _extract_texture_features, _extract_dynamic_features.  yields: the values
\* the image gives when nothing goes wrong; failing: the groups in which
\* something raises, which the group's own except clause turns into {}
sub_extraction(g, yields, failing) ==
    IF g \in failing THEN EmptySet ELSE Restrict(yields, KeysOf(g))

\* variant: a group that raises ends the extraction with {}
extract_keys_all_or_nothing(yields, failing) ==
    IF failing # {}
    THEN EmptySet
    ELSE update(update(update(update(EmptySet,
             sub_extraction("geometric", yields, failing)),
             sub_extraction("stroke", yields, failing)),
             sub_extraction("texture", yields, failing)),
             sub_extraction("dynamic", yields, failing))

\* the keys and numbers extract_all_features puts together
extract_keys(yields, failing) ==
    update(update(update(update(EmptySet,
        sub_extraction("geometric", yields, failing)),
        sub_extraction("stroke", yields, failing)),
        sub_extraction("texture", yields, failing)),
        sub_extraction("dynamic", yields, failing))

\* an image with ink, and a blank one in which findContours finds nothing,
\* so that the geometric group returns {} without failing
Yields == { Base, Restrict(Base, AllKeys \ GeometricKeys) }

Extract ==
    /\ Quiet
    /\ \E yields \in Yields, failing \in SUBSET Groups :
          probe' = [op |-> "extract", yields |-> yields, failing |-> failing,
                    out |-> extract_keys(yields, failing)]
    /\ UNCHANGED << model, scaler, is_trained, store, runs, result,
                    train_result, compared, tpc, apc, seen, template_row >>

\* the ink mask (image < 0.5) is a row of MaxWidth pixels, 1 for ink
Masks == [1..MaxWidth -> { 0, 1 }]

\* the pixels at which a connected run of ink begins
stroke_starts(binary_image) ==
    { i \in DOMAIN binary_image :
        binary_image[i] = 1 /\ (i = 1 \/ binary_image[i - 1] = 0) }

\* cv2.connectedComponents: the number of labels, of which label 0 is the
\* background and each connected run of ink has one of its own
connectedComponents(binary_image) ==
    Cardinality(stroke_starts(binary_image)) + 1

\* the pen_lifts entry of _extract_dynamic_features
pen_lifts_of(binary_image) ==
    LET num_labels == connectedComponents(binary_image)
    IN  IF num_labels - 1 > 0 THEN num_labels - 1 ELSE 0

CountPenLifts ==
    /\ Quiet
    /\ \E binary_image \in Masks :
          probe' = [op |-> "count", mask |-> binary_image,
                    pen_lifts |-> pen_lifts_of(binary_image)]
    /\ UNCHANGED << model, scaler, is_trained, store, runs, result,
                    train_result, compared, tpc, apc, seen, template_row >>

NextPure ==
    \/ Extract
    \/ CountPenLifts
    \/ ToArray
    \/ RuleBased
    \/ RoundTrip
    \/ FromJson
    \/ BandPair
    \/ PenLifts
    \/ Return

SpecPure == Init /\ [][NextPure]_vars

----------------------------------------------------------------------------
(* A template stored by an upload and used by a later verification         *)

\* the numbers of a dictionary of Python objects
Plain(features) == [k \in DOMAIN features |-> features[k].v]

ProbsNow ==
    IF is_trained /\ Cardinality(model.classes) > 1 THEN ProbVals ELSE { One }

\* upload_signature: the image is analysed without a template; with a
\* template_name the extracted features of the result are stored as text.
\* A result without extracted_features ends the handler before the row is
\* added
Upload ==
    /\ Quiet
    /\ \E d \in Images, lines \in BOOLEAN, named \in BOOLEAN, prob \in ProbsNow :
          /\ result' = analyze_signature(
                           "none", Plain(extract_all_features(d, lines)), FALSE,
                           EmptySet, prob)
          /\ template_row' =
                IF named /\ DOMAIN d # {}
                THEN [stored |-> TRUE, yields |-> d, lines |-> lines,
                      features_json |->
                          features_to_json(extract_all_features(d, lines))]
                ELSE template_row
          /\ probe' = [op |-> "upload", named |-> named]
    /\ UNCHANGED << model, scaler, is_trained, store, runs, train_result,
                    compared, tpc, apc, seen >>

\* what verify_signature hands to analyze_signature for the stored text
template_of(row) ==
    LET loaded == features_from_json(row.features_json)
    IN  IF loaded.kind = "dict"
        THEN [given |-> TRUE, features |-> Plain(loaded.value)]
        ELSE [given |-> loaded.kind # "None", features |-> EmptySet]

\* verify_signature with the id of the stored template
Verify ==
    /\ Quiet
    /\ template_row.stored
    /\ \E d \in Images, lines \in BOOLEAN, prob \in ProbsNow :
          /\ result' = analyze_signature(
                           "none", Plain(extract_all_features(d, lines)),
                           template_of(template_row).given,
                           template_of(template_row).features, prob)
          /\ probe' = [op |-> "verify",
                       same |-> d = template_row.yields
                                   /\ lines = template_row.lines]
    /\ UNCHANGED << model, scaler, is_trained, store, runs, train_result,
                    compared, tpc, apc, seen, template_row >>

NextFlow ==
    \/ Upload
    \/ Verify
    \/ Return

SpecFlow == Init /\ [][NextFlow]_vars

----------------------------------------------------------------------------
(* analyze_signature over the larger family of descriptor sets             *)

\* with a template both sets come from Descriptors; without one the image
\* may also yield any of the sets the rule heuristic tells apart
Analyze ==
    /\ Quiet
    /\ \E given \in BOOLEAN :
       \E features \in IF given THEN Descriptors
                       ELSE Descriptors \cup RuleDescriptors,
          template_features \in IF given THEN Descriptors ELSE { EmptySet },
          prob \in ProbsNow :
          result' = analyze_signature("none", features, given,
                                      template_features, prob)
    /\ UNCHANGED << model, scaler, is_trained, store, runs, train_result,
                    compared, tpc, apc, seen, probe, template_row >>

NextAnalyze ==
    \/ Analyze
    \/ Return

SpecAnalyze == Init /\ [][NextAnalyze]_vars

----------------------------------------------------------------------------
(* Properties                                                              *)

WeightedNames == { weights[i].name : i \in 1..Len(weights) }

\* the weighted features present in both descriptor sets
Shared(features, template_features) ==
    WeightedNames \cap (DOMAIN features) \cap (DOMAIN template_features)

\* the sum of the weights of the table entries whose name is in S
WeightSum(S) ==
    sum([i \in 1..Len(weights) |->
            IF weights[i].name \in S THEN weights[i].weight ELSE Zero],
        1, Len(weights))

\* the sum of weight * similarity over the table entries named in S
WeightedSimilaritySum(S, features, template_features) ==
    sum([i \in 1..Len(weights) |->
            IF weights[i].name \in S
            THEN RMul[weights[i].weight,
                      Similarity(weights[i].name, features[weights[i].name],
                                 template_features[weights[i].name])]
            ELSE Zero],
        1, Len(weights))

InUnit(x) == RLeq[Zero, x] /\ RLeq[x, One]

\* C1 as stated: comparing any descriptor set against itself gives score 1
\* and the key-feature guard stays off.
C1_SelfCompareAny ==
    (compared.called /\ compared.features = compared.template)
        => (compared.out.score = One /\ ~compared.out.guard)

\* C1 as amended: comparing a descriptor set that holds at least one weighted
\* feature against itself gives score exactly 1 and the key-feature guard
\* stays off.
C1_SelfCompare ==
    (/\ compared.called
     /\ compared.features = compared.template
     /\ WeightedNames \cap DOMAIN compared.features # {})
        => (compared.out.score = One /\ ~compared.out.guard)

C1_Witness ==
    /\ compared.called
    /\ compared.features = compared.template
    /\ "density" \in DOMAIN compared.features
    /\ compared.features["density"] = 0
    /\ compared.out.score = One

\* the first five entries of the array handed to the rule heuristic
RuleInputs(r) == SubSeq(features_to_array(r.features), 1, 5)

AllBonusInputs == << 100, 10, 50, 50, 100 >>

\* C2 as stated: the rule heuristic on aspect_ratio 1.0, density 0.1,
\* centroid (0.5, 0.5), compactness 1.0 gives score 1.0 and confidence 0.8.
C2_AllBonusIsOne ==
    (/\ result.status = "ok"
     /\ result.strategy = "rule"
     /\ RuleInputs(result) = AllBonusInputs)
        => (/\ result.authenticity_score = One
            /\ result.confidence_level = R(8, 10))

\* C2 as amended: on that descriptor the rule heuristic gives score 0.9
\* (0.5 plus bonuses of 0.1, 0.1, 0.05, 0.05, 0.1) and confidence 0.72.
C2_AllBonus ==
    (/\ result.status = "ok"
     /\ result.strategy = "rule"
     /\ RuleInputs(result) = AllBonusInputs)
        => (/\ result.authenticity_score = R(9, 10)
            /\ result.confidence_level = R(72, 100))

C2_Witness ==
    /\ result.status = "ok"
    /\ result.strategy = "rule"
    /\ RuleInputs(result) = AllBonusInputs
    /\ result.authenticity_score = R(9, 10)

\* C3: an analyze call that was given a template (any mapping, the empty one
\* included) is scored by the template comparator and by nothing else.
C3_TemplateAlwaysCompared ==
    (result.status = "ok" /\ result.given)
        => (/\ result.strategy = "template"
            /\ result.authenticity_score =
                 compare_with_template(result.features, result.template).score
            /\ result.confidence_level =
                 compare_with_template(result.features, result.template).confidence)

C3_Witness ==
    /\ result.status = "ok"
    /\ result.given
    /\ result.strategy = "rule"
    /\ result.is_authentic
    /\ compare_with_template(result.features, result.template).score = Zero

\* C4: in every returned record, is_authentic is true exactly when the
\* returned score is at least 0.7.
C4_DecisionIsThreshold ==
    (result.status # "none")
        => (result.is_authentic <=> RLeq[R(7, 10), result.authenticity_score])

C4_Witness ==
    /\ result.status = "ok"
    /\ result.authenticity_score = R(7, 10)
    /\ result.is_authentic

\* C5: the template comparator returns a score and a confidence in [0, 1],
\* and so are the weighted average and the banded confidence it had before
\* the key-feature guard was applied.
C5_CompareInUnit ==
    compared.called
        => (/\ InUnit(compared.out.score)
            /\ InUnit(compared.out.confidence)
            /\ InUnit(compared.out.average)
            /\ InUnit(compared.out.banded))

C5_Witness ==
    /\ compared.called
    /\ compared.out.guard
    /\ RLt[Zero, compared.out.score]
    /\ RLt[compared.out.confidence, compared.out.banded]

\* C6: every record analyze returns, on every path, has its score and its
\* confidence in [0, 1] and a boolean is_authentic.
C6_ResultInUnit ==
    (result.status # "none")
        => (/\ InUnit(result.authenticity_score)
            /\ InUnit(result.confidence_level)
            /\ result.is_authentic \in BOOLEAN)

C6_Witness ==
    /\ result.status = "ok"
    /\ result.strategy = "template"
    /\ result.confidence_level = One

\* a key feature present in both sets that differs from the template value
\* by more than half of that value
DiffersBeyondHalf(features, template_features, positive_only) ==
    \E k \in { "aspect_ratio", "density", "compactness" } :
        /\ k \in DOMAIN features
        /\ k \in DOMAIN template_features
        /\ positive_only => template_features[k] > 0
        /\ 2 * Abs(features[k] - template_features[k]) > Abs(template_features[k])

GuardApplied(out) ==
    /\ out.score = RMul[out.average, R(7, 10)]
    /\ out.confidence = RMul[out.banded, R(8, 10)]
    /\ RLeq[RMul[out.score, R(10, 1)], RMul[out.average, R(7, 1)]]

GuardSkipped(out) ==
    /\ out.score = out.average
    /\ out.confidence = out.banded

\* C7 as stated: the guard is applied exactly when some key feature present
\* in both sets differs from the template value by more than 50 percent.
C7_GuardAnyTemplateValue ==
    (compared.called /\ compared.out.overlap)
        => IF DiffersBeyondHalf(compared.features, compared.template, FALSE)
           THEN GuardApplied(compared.out)
           ELSE GuardSkipped(compared.out)

\* C7 as amended: the guard is applied exactly when some key feature present
\* in both sets, with a positive template value, differs from that value by
\* more than 50 percent; then score is 0.7 times the weighted average and
\* confidence 0.8 times the banded confidence, and otherwise both are
\* returned as they were.
C7_Guard ==
    (compared.called /\ compared.out.overlap)
        => IF DiffersBeyondHalf(compared.features, compared.template, TRUE)
           THEN GuardApplied(compared.out)
           ELSE GuardSkipped(compared.out)

C7_Witness ==
    /\ compared.called
    /\ compared.out.overlap
    /\ DiffersBeyondHalf(compared.features, compared.template, TRUE)
    /\ RLt[Zero, compared.out.average]
    /\ compared.out.score = RMul[compared.out.average, R(7, 10)]

WeightTableShape ==
    /\ Len(weights) = 16
    /\ Cardinality(WeightedNames) = 16
    /\ "stroke_direction" \notin WeightedNames
    /\ WeightedNames \cap TextureKeys = {}

\* C8 as stated: the weight table has 16 entries, leaves out stroke_direction
\* and the texture features, and its weights add up to 1.0.
C8_WeightsSumToOne ==
    /\ WeightTableShape
    /\ WeightSum(WeightedNames) = One
    /\ (compared.called /\ compared.out.count = 16)
          => compared.out.total_weight = One

\* C8 as amended: the weight table has 16 entries, leaves out stroke_direction
\* and the texture features, and its weights add up to 1.45; that is the
\* weight a comparison over all 16 features divides by.
C8_Weights ==
    /\ WeightTableShape
    /\ WeightSum(WeightedNames) = R(145, 100)
    /\ (compared.called /\ WeightedNames \subseteq DOMAIN compared.features
                        /\ WeightedNames \subseteq DOMAIN compared.template)
          => (compared.out.count = 16 /\ compared.out.total_weight = R(145, 100))

C8_Witness ==
    /\ compared.called
    /\ compared.out.count = 16
    /\ compared.out.total_weight = R(145, 100)
    /\ RLt[compared.out.average, One]

\* C9: the unguarded score is the sum of weight * similarity over the
\* weighted features present in both sets divided by the sum of the weights
\* of those features; with no such feature score and confidence are 0.
C9_WeightedAverage ==
    compared.called
        => LET S == Shared(compared.features, compared.template)
           IN  IF S = {}
               THEN compared.out.score = Zero /\ compared.out.confidence = Zero
               ELSE /\ compared.out.overlap
                    /\ compared.out.total_weight = WeightSum(S)
                    /\ RMul[compared.out.average, WeightSum(S)] =
                         WeightedSimilaritySum(S, compared.features,
                                               compared.template)

C9_Witness ==
    /\ compared.called
    /\ Shared(compared.features, compared.template) # {}
    /\ Shared(compared.features, compared.template) # WeightedNames
    /\ RLt[Zero, compared.out.average]
    /\ RLt[compared.out.average, One]

\* C10: an analyze call that takes the model strategy while train_model runs
\* applies a scaler and a fitted model that come from the same fit: both the
\* old ones or both the new ones.
C10_PairSeenWhole ==
    (apc = "done" /\ seen.trained)
        => (seen.model_fitted /\ seen.scaler_gen = seen.model_gen)

C10_Witness ==
    /\ apc = "done"
    /\ seen.trained
    /\ seen.strategy = "model"
    /\ seen.scaler_gen # seen.model_gen

\* the analyzer and the store as they are now
Holdings ==
    [model |-> model, scaler |-> scaler, is_trained |-> is_trained,
     store |-> store]

\* C11: train_model called with fewer than 10 samples, the empty list
\* included, returns False and leaves the model, the scaler, the trained flag
\* and the saved files exactly as they were before the call.
C11_ShortTrainingRejected ==
    (train_result.ret # "none" /\ train_result.n < MIN_SAMPLES) =>
        /\ train_result.ret = "False"
        /\ Holdings = train_result.before

\* a call with nine samples on an analyzer that holds a loaded model
C11_Witness ==
    /\ train_result.ret = "False"
    /\ train_result.n > 0
    /\ train_result.n < MIN_SAMPLES
    /\ train_result.fault = "none"
    /\ is_trained
    /\ store.model.st = "ok"

\* the steps of train_model after the sample count was accepted
StepFaults == { "scaler_fit", "model_fit", "makedirs", "dump_model", "dump_scaler" }

\* C12: train_model sets the trained flag and returns True only when the
\* scaler fit, the classifier fit and the save to the model files have all
\* succeeded; when one of them fails, a failed save included, the call
\* does not return True and the trained flag is not flipped.
C12_TrainedOnlyAfterSave ==
    (/\ train_result.ret # "none"
     /\ train_result.n >= MIN_SAMPLES
     /\ train_result.fault \in StepFaults) =>
        /\ train_result.ret = "False"
        /\ is_trained = train_result.before.is_trained

\* a call whose scaler dump raised and left a truncated file, on an analyzer
\* that was not trained: it returned True with the flag set
C12_Witness ==
    /\ train_result.ret = "True"
    /\ train_result.fault = "dump_scaler"
    /\ ~train_result.before.is_trained
    /\ is_trained
    /\ store.scaler.st = "corrupt"

\* C13: when extraction yields an empty descriptor set, analyze_signature
\* returns score 0, confidence 0 and is_authentic false, without raising and
\* without running the comparator, the classifier or the rule heuristic,
\* whether or not a template was supplied or a model is trained.
C13_EmptyExtraction ==
    (/\ result.status # "none"
     /\ result.fault = "none"
     /\ DOMAIN result.features = {}) =>
        /\ result.outcome = "returned"
        /\ result.authenticity_score = Zero
        /\ result.confidence_level = Zero
        /\ ~result.is_authentic
        /\ result.strategy = "none"
        /\ result.cmp = NoCompare

\* an empty extraction in a verify call that supplied a template, on a
\* trained analyzer
C13_Witness ==
    /\ result.status = "no_features"
    /\ DOMAIN result.features = {}
    /\ result.given
    /\ DOMAIN result.template # {}
    /\ is_trained

\* C14: when decoding or preprocessing the image fails inside an
\* analyze_signature call, the call raises a typed error to its caller and
\* does not complete with an ordinary result record.
C14_ImageFailureSurfaces ==
    (result.status # "none" /\ result.fault \in { "decode", "preprocess" }) =>
        result.outcome = "raised"

\* an upload whose bytes are not an image: the caller holds an ordinary record
C14_Witness ==
    /\ result.status = "exception"
    /\ result.fault = "decode"
    /\ ~result.given
    /\ result.outcome = "returned"
    /\ result.authenticity_score = Zero
    /\ ~result.is_authentic

\* both files exist and joblib.load raises on one of them
LoadFails(files) ==
    /\ files.model.st # "absent"
    /\ files.scaler.st # "absent"
    /\ (files.model.st = "corrupt" \/ files.scaler.st = "corrupt")

\* transform or predict_proba would raise on what the analyzer holds
PredictionFails == ~scaler.fitted \/ ~model.obj \/ ~model.fitted

\* the pending result is that of a call scored without a template
ScoredAlone ==
    /\ result.status = "ok"
    /\ ~TemplateBranch(result.given, result.template)

RuleScored ==
    LET r == rule_based_analysis(features_to_array(result.features))
    IN  /\ result.strategy = "rule"
        /\ result.authenticity_score = r.score
        /\ result.confidence_level = r.confidence

C15_Holds ==
    /\ result.status # "none" => result.outcome = "returned"
    /\ (runs = 0 /\ LoadFails(store)) => ~is_trained
    /\ (ScoredAlone /\ ~is_trained) => RuleScored
    /\ (ScoredAlone /\ is_trained /\ PredictionFails) => RuleScored

C15_Construction == (Construct /\ LoadFails(store)) => ~is_trained'

\* C15: a failure while loading the model or the scaler in __init__, or while
\* saving them, never aborts construction or a later analyze_signature call:
\* after a failed load the trained flag is false and an analysis without a
\* template is scored by the rule heuristic; when the scaler or the
\* classifier of a trained analyzer fails at prediction time, the rule
\* heuristic is used as well.
C15_LoadSaveFailuresNotFatal == []C15_Holds /\ [][C15_Construction]_vars

\* a training run saved the model but broke the scaler file; the analyzer
\* was constructed again, the load failed, and an upload was scored by rule
C15_Witness ==
    /\ store.scaler.st = "corrupt"
    /\ store.model.st = "ok"
    /\ store.model.gen > 0
    /\ ~is_trained
    /\ model.fitted
    /\ ~scaler.fitted
    /\ ScoredAlone
    /\ RuleScored

\* the probability of the authentic class (label 1) held by the classifier
\* for the analysed image: a classifier fitted on one label is certain of it
ProbAuthentic ==
    IF model.classes = { 0, 1 } THEN result.proba
    ELSE IF model.classes = { 1 } THEN One
    ELSE Zero

\* C16: an analysis without a template on an analyzer with a trained model
\* is scored with the classifier's probability of the authentic class, and
\* the confidence equals that score; with no trained model the rule heuristic
\* is used; exactly one of the three strategies determines each result.
C16_ModelScoreIsProbAuthentic ==
    /\ result.status = "ok" => result.strategy \in { "template", "model", "rule" }
    /\ (ScoredAlone /\ ~is_trained) => RuleScored
    /\ (ScoredAlone /\ is_trained /\ ~PredictionFails) =>
            /\ result.strategy = "model"
            /\ result.authenticity_score = ProbAuthentic
            /\ result.confidence_level = result.authenticity_score

\* a classifier trained on fake samples only scores an upload 1.0
C16_Witness ==
    /\ is_trained
    /\ model.classes = { 0 }
    /\ ScoredAlone
    /\ result.strategy = "model"
    /\ result.authenticity_score = One
    /\ result.is_authentic

\* Python equality of two dictionaries of numbers: the same keys, and under
\* each key the same number (the int 3 equals the float 3.0)
EqualDicts(a, b) ==
    /\ DOMAIN a = DOMAIN b
    /\ \A k \in DOMAIN a : a[k].v = b[k].v

\* C17: for every descriptor set d produced by extraction,
\* features_from_json(features_to_json(d)) equals d: the same keys with
\* equal values.
C17_RoundTrip ==
    probe.op = "round_trip" =>
        /\ probe.out.kind = "dict"
        /\ EqualDicts(probe.out.value, probe.features)

\* an image with a straight stroke: the stored text is the empty object and
\* the descriptor set read back is empty
C17_Witness ==
    /\ probe.op = "round_trip"
    /\ "stroke_direction" \in DOMAIN probe.features
    /\ probe.features["stroke_direction"].type = "float32"
    /\ probe.text = EmptyObject
    /\ DOMAIN probe.out.value = {}

\* C18: features_from_json never lets an exception escape: for an input that
\* cannot be deserialized (text that is no JSON, or None in place of a text)
\* it returns an empty descriptor set.
C18_FromJsonNeverRaises ==
    probe.op = "from_json" =>
        /\ probe.out.kind \notin { "JSONDecodeError", "TypeError" }
        /\ probe.text.kind \in { "malformed", "None" } =>
               /\ probe.out.kind = "dict"
               /\ DOMAIN probe.out.value = {}

\* the features_json of a row that holds no text
C18_Witness ==
    /\ probe.op = "from_json"
    /\ probe.text.kind = "None"
    /\ probe.out.kind = "dict"
    /\ DOMAIN probe.out.value = {}

\* C19: the confidence banding of the template comparator (score >= 0.85:
\* min(1.1 * score, 1); 0.70 <= score < 0.85: 0.9 * score; 0.50 <= score <
\* 0.70: 0.7 * score; below: 0.5 * score) is monotonic: for two unguarded
\* scores s1 <= s2 in [0, 1] the banded confidence of s1 is at most that of
\* s2, across the band boundaries 0.50, 0.70 and 0.85 as well.
C19_BandMonotonic ==
    (probe.op = "band" /\ RLeq[probe.s1, probe.s2]) =>
        /\ RLeq[probe.c1, probe.c2]
        /\ InUnit(probe.c1)
        /\ InUnit(probe.c2)

\* two scores on the two sides of the boundary 0.70
C19_Witness ==
    /\ probe.op = "band"
    /\ RLeq[R(50, 100), probe.s1]
    /\ RLt[probe.s1, R(70, 100)]
    /\ RLeq[R(70, 100), probe.s2]
    /\ RLt[probe.s2, R(85, 100)]
    /\ probe.c1 = RMul[probe.s1, R(7, 10)]
    /\ probe.c2 = RMul[probe.s2, R(9, 10)]

\* C20: the pen_lifts similarity of the template comparator is 1.0 when the
\* two counts differ by at most 1 and max(0, 1 - 0.5 * (|a - b| - 1))
\* otherwise: a difference of 1 gives 1.0, a difference of 2 gives 0.5 and a
\* difference of 3 or more gives 0.0.
C20_PenLifts ==
    probe.op = "pen_lifts" =>
        LET diff == Abs(probe.a - probe.b)
        IN  /\ diff <= 1 => probe.similarity = One
            /\ diff > 1 =>
                   probe.similarity = RMax[Zero, RSub[One, R(diff - 1, 2)]]
            /\ diff = 2 => probe.similarity = R(1, 2)
            /\ diff >= 3 => probe.similarity = Zero

\* counts 0 and 3
C20_Witness ==
    /\ probe.op = "pen_lifts"
    /\ probe.a = 0
    /\ probe.b = 3
    /\ probe.similarity = Zero

\* the place of a canonical name in feature_names
Position(name) == CHOOSE i \in 1..Len(feature_names) : feature_names[i] = name

CanonicalNames == { feature_names[i] : i \in 1..Len(feature_names) }

\* C21: for every descriptor mapping (complete, partial, empty, or with keys
\* that are no canonical name) _features_to_array returns exactly 17 values;
\* the i-th is the mapping's value for the i-th canonical name, or 0.0 when
\* the mapping lacks it; other keys are ignored.
C21_ArrayOfSeventeen ==
    probe.op = "to_array" =>
        /\ DOMAIN probe.out = 1..17
        /\ \A name \in CanonicalNames \cap DOMAIN probe.features :
               probe.out[Position(name)] = probe.features[name]
        /\ \A name \in CanonicalNames \ DOMAIN probe.features :
               probe.out[Position(name)] = 0

\* a mapping that has canonical names, lacks others and has keys that are
\* not canonical
C21_Witness ==
    /\ probe.op = "to_array"
    /\ CanonicalNames \cap DOMAIN probe.features # {}
    /\ CanonicalNames \ DOMAIN probe.features # {}
    /\ DOMAIN probe.features \ CanonicalNames # {}
    /\ probe.out[Position("aspect_ratio")] = 0
    /\ probe.out[Position("pen_lifts")] # 0

\* the named feature of d lies strictly between lo/100 and hi/100
Within(d, name, lo, hi) ==
    /\ name \in DOMAIN d
    /\ lo < d[name]
    /\ d[name] < hi

\* the bonuses of the rule heuristic, each read from the named feature
BonusSum(d) ==
    RAdd[Bonus(Within(d, "aspect_ratio", 20, 500), R(1, 10)),
    RAdd[Bonus(Within(d, "density", 1, 50), R(1, 10)),
    RAdd[Bonus(Within(d, "centroid_x", 20, 80), R(1, 20)),
    RAdd[Bonus(Within(d, "centroid_y", 20, 80), R(1, 20)),
         Bonus(Within(d, "compactness", 10, 200), R(1, 10))]]]]

\* C22: for every descriptor set scored by the rule heuristic the score is
\* 0.5, plus 0.10 if aspect_ratio is in (0.2, 5.0), plus 0.10 if density is
\* in (0.01, 0.5), plus 0.05 for each of centroid_x and centroid_y in
\* (0.2, 0.8), plus 0.10 if compactness is in (0.1, 2.0), all intervals open
\* and each read from the named feature, clamped to [0, 1]; the confidence
\* is 0.8 times the score and so never greater than the score.
C22_RuleScore ==
    probe.op = "rule" =>
        /\ probe.out.score =
               RMin[One, RMax[Zero, RAdd[R(1, 2), BonusSum(probe.features)]]]
        /\ probe.out.confidence = RMul[R(8, 10), probe.out.score]
        /\ RLeq[probe.out.confidence, probe.out.score]

\* aspect_ratio at the end 0.2 of its interval, density inside its own
C22_Witness ==
    /\ probe.op = "rule"
    /\ DOMAIN probe.features = { "aspect_ratio", "density" }
    /\ probe.features["aspect_ratio"] = 20
    /\ probe.features["density"] = 10
    /\ probe.out.score = R(6, 10)
    /\ probe.out.confidence = R(48, 100)

\* C23: extract_all_features never raises: a sub-extraction (geometric,
\* stroke, texture, dynamic) that fails contributes no keys, the keys of
\* every group that succeeded are in the returned set, and the set is empty
\* only if every group contributed nothing.
C23_GroupsFailAlone ==
    probe.op = "extract" =>
        /\ \A g \in probe.failing : KeysOf(g) \cap DOMAIN probe.out = {}
        /\ \A g \in Groups \ probe.failing :
               \A k \in KeysOf(g) \cap DOMAIN probe.yields :
                   /\ k \in DOMAIN probe.out
                   /\ probe.out[k] = probe.yields[k]
        /\ DOMAIN probe.out \subseteq DOMAIN probe.yields
        /\ DOMAIN probe.out = {} =>
               \A g \in Groups \ probe.failing :
                   KeysOf(g) \cap DOMAIN probe.yields = {}

\* the stroke and the texture group fail, the other two contribute
C23_Witness ==
    /\ probe.op = "extract"
    /\ probe.failing = { "stroke", "texture" }
    /\ DOMAIN probe.out = GeometricKeys \cup DynamicKeys

\* C24: after an image was uploaded and stored as a template, a later
\* verification of the very same image against that template yields a score
\* above 0.8, namely the self-comparison score 1.0, and is_authentic true:
\* the stored text deserializes to the extracted descriptor set and the
\* comparison strategy is the one used.
C24_SameImageMatches ==
    (probe.op = "verify" /\ probe.same) =>
        /\ result.strategy = "template"
        /\ result.template = result.features
        /\ RLt[R(8, 10), result.authenticity_score]
        /\ result.authenticity_score = One
        /\ result.is_authentic

\* the template of an image with a straight stroke was stored as the empty
\* object; the same image is then scored by the classifier and rejected
C24_Witness ==
    /\ probe.op = "verify"
    /\ probe.same
    /\ template_row.lines
    /\ "aspect_ratio" \in DOMAIN template_row.yields
    /\ template_row.features_json = EmptyObject
    /\ result.strategy = "model"
    /\ ~result.is_authentic

\* the connected components of the ink of a mask
InkComponents(mask) ==
    Cardinality({ i \in DOMAIN mask :
                    mask[i] = 1 /\ (i - 1 \notin DOMAIN mask \/ mask[i - 1] = 0) })

\* C25: the extracted pen_lifts value is the number of connected components
\* of the ink mask minus one, floored at 0; a mask that is one connected
\* stroke yields pen_lifts = 0.
C25_PenLiftsIsComponentsLessOne ==
    probe.op = "count" =>
        probe.pen_lifts = IF InkComponents(probe.mask) > 0
                          THEN InkComponents(probe.mask) - 1 ELSE 0

\* one connected stroke counts as one pen lift
C25_Witness ==
    /\ probe.op = "count"
    /\ InkComponents(probe.mask) = 1
    /\ probe.mask[1] = 0
    /\ probe.pen_lifts = 1

\* C26: in every reachable state of an analyzer, across any sequence of
\* loads, successful and failed train_model calls (a call that raises after
\* the scaler was fitted or after the new classifier was assigned included),
\* a true trained flag means that the model in memory is a fitted classifier
\* and the scaler in memory is the one fitted in the same training run or
\* loaded together with it; a failed train_model leaves the previous pair in
\* place.
C26_PairStaysWhole ==
    /\ is_trained =>
           /\ model.obj
           /\ model.fitted
           /\ scaler.fitted
           /\ scaler.gen = model.gen
    /\ train_result.ret = "False" =>
           /\ model = train_result.before.model
           /\ scaler = train_result.before.scaler

\* a trained analyzer after a train_model call whose classifier fit raised:
\* the flag is still set, the scaler is the new one, the model is unfitted
C26_Witness ==
    /\ train_result.ret = "False"
    /\ train_result.fault = "model_fit"
    /\ train_result.before.is_trained
    /\ is_trained
    /\ model.obj
    /\ ~model.fitted
    /\ scaler.gen # train_result.before.scaler.gen

\* what the analyzer holds and what it has saved
AnalyzerFields == << model, scaler, is_trained, store >>

C27_Step ==
    /\ (result' # result /\ result'.status # "none") =>
           UNCHANGED AnalyzerFields
    /\ AnalyzerFields' # AnalyzerFields => (Construct \/ Train)

\* C27: no analyze_signature call, on any path (any strategy, an empty
\* extraction, a caught exception, a prediction failure with the rule
\* fallback), changes the model, the scaler, the trained flag or the saved
\* files; only the load in __init__ and train_model write them.
C27_AnalyzeWritesNothing == [][C27_Step]_vars

\* an analysis on a trained analyzer whose scaler cannot transform: the rule
\* heuristic scored it
C27_Witness ==
    /\ ScoredAlone
    /\ is_trained
    /\ PredictionFails
    /\ result.strategy = "rule"
    /\ runs > 0

\* C28: in every successful analyze_signature result the recommendation of
\* the report is "Authentic" exactly when is_authentic is true and
\* "Suspicious" exactly when it is false, and the report's overall_score is
\* the returned authenticity_score, the score after the key-feature guard.
C28_ReportAgrees ==
    result.status = "ok" =>
        /\ result.details.recommendation = "Authentic" <=> result.is_authentic
        /\ result.details.recommendation = "Suspicious" <=> ~result.is_authentic
        /\ result.details.overall_score = result.authenticity_score
        /\ result.strategy = "template" =>
               result.authenticity_score =
                   IF result.cmp.guard
                   THEN RMul[result.cmp.average, R(7, 10)]
                   ELSE result.cmp.average

\* a comparison in which the guard lowered the score
C28_Witness ==
    /\ result.status = "ok"
    /\ result.strategy = "template"
    /\ result.cmp.guard
    /\ RLt[result.authenticity_score, result.cmp.average]
    /\ result.details.overall_score = result.authenticity_score
    /\ result.details.recommendation = "Suspicious"

\* C29: with the default threshold 0.7, an analysis in which the key-feature
\* guard of the comparison triggered is never authentic: the feature that
\* triggered the guard has a similarity below 0.5 and a positive weight, so
\* the weighted average is strictly below 1 and the guarded score strictly
\* below 0.7.
C29_GuardedNeverAuthentic ==
    (result.status = "ok" /\ result.strategy = "template" /\ result.cmp.guard) =>
        /\ \E k \in { "aspect_ratio", "density", "compactness" }
                     \cap Shared(result.features, result.template) :
               /\ result.template[k] > 0
               /\ 2 * Abs(result.features[k] - result.template[k])
                     > result.template[k]
               /\ RLt[Similarity(k, result.features[k], result.template[k]),
                      R(1, 2)]
               /\ \E i \in 1..Len(weights) :
                      weights[i].name = k /\ RLt[Zero, weights[i].weight]
        /\ RLt[result.cmp.average, One]
        /\ RLt[result.authenticity_score, R(7, 10)]
        /\ ~result.is_authentic

\* a guarded comparison whose score stays above one half
C29_Witness ==
    /\ result.status = "ok"
    /\ result.strategy = "template"
    /\ result.cmp.guard
    /\ RLt[R(1, 2), result.authenticity_score]
    /\ ~result.is_authentic

\* C30: with no template and no trained model, every analysis whose
\* extraction produced a descriptor set that is not empty gets a rule-based
\* score of at least 0.5 and at most 0.9, with a confidence between 0.4 and
\* 0.72; at the default threshold 0.7 it is reported authentic exactly when
\* the satisfied bonuses add up to at least 0.20.
C30_RuleRange ==
    (/\ result.status # "none"
     /\ result.fault = "none"
     /\ DOMAIN result.features # {}
     /\ ~result.given
     /\ ~is_trained) =>
        /\ result.status = "ok"
        /\ result.strategy = "rule"
        /\ RLeq[R(5, 10), result.authenticity_score]
        /\ RLeq[result.authenticity_score, R(9, 10)]
        /\ RLeq[R(40, 100), result.confidence_level]
        /\ RLeq[result.confidence_level, R(72, 100)]
        /\ result.is_authentic <=> RLeq[R(20, 100), BonusSum(result.features)]

\* aspect_ratio and density earn their bonuses and nothing else does: the
\* score is the threshold itself
C30_Witness ==
    /\ result.status = "ok"
    /\ ~result.given
    /\ ~is_trained
    /\ BonusSum(result.features) = R(20, 100)
    /\ "centroid_x" \in DOMAIN result.features
    /\ result.authenticity_score = R(7, 10)
    /\ result.is_authentic

====
